---- MODULE Spec2Model ----
(***************************************************************************)
(* Model of src/slurmd/common/run_script.c: run_script() expands a glob    *)
(* pattern into a list of script paths and calls run_one_script() on each, *)
(* which forks a child into its own process group, waits for it (blocking  *)
(* or by one-second polls against max_wait), kills the process group on    *)
(* timeout and after the child was reaped.                                 *)
(*                                                                         *)
(* The parent is modelled at the granularity of its system calls; the      *)
(* forked child, the descendants it leaves in its process group and the    *)
(* kernel (waitpid(2), killpg(2) semantics) are the environment.           *)
(***************************************************************************)
EXTENDS Integers, Naturals, Sequences, FiniteSets, TLC

\* ---------------------------------------------------------------- bounds
MaxScripts == 2      \* at most this many paths in gl_pathv
MaxWait == 2         \* max_wait argument ranges over -1..MaxWait
MaxOverrun == 2      \* the budget is decremented down to -MaxOverrun at most
MaxEintr == 1        \* interrupted waitpid calls per run_one_script call

\* ------------------------------------------------------ program constants
WNOHANG == 1
SIGKILL == 9
ExecFailStatus == 32512          \* wait status of exit(127)
GLOB_NOSPACE == 1
GLOB_ABORTED == 2
GLOB_NOMATCH == 3
GLOB_UNKNOWN == 4                \* any code reaching the default: label
ErrorRet == -1                   \* value of error(): SLURM_ERROR
NullPath == 0                    \* path == NULL
EmptyStr == -1                   \* path[0] == '\0'

GlobCodes == {0, GLOB_NOSPACE, GLOB_ABORTED, GLOB_NOMATCH, GLOB_UNKNOWN}
ExitStatuses == {0, 256, ExecFailStatus}   \* wait statuses of a child's own exit
Paths == 1..MaxScripts           \* path names, numbered in glob's sort order
Scripts == 1..MaxScripts         \* positions in the list

VARIABLES
    pc,            \* position of the caller thread
    pattern,       \* "null", "empty" or "glob"
    globrc,        \* what glob(3) returns for the pattern
    gl_pathv,      \* what glob(3) leaves in gl.gl_pathv
    iter_ok,       \* whether list_iterator_create succeeds
    max_wait_arg,  \* run_script's max_wait argument
    sigchld_ign,   \* exited children are collected outside this call
    direct,        \* run_one_script is entered on its own, with path_arg
    path_arg,      \* the path of that call
    l,             \* run_script: the list, [null, items]
    it,            \* run_script: number of items list_next has returned
    rc,            \* run_script: rc
    rc_set,        \* run_script: rc has been assigned
    ret,           \* value run_script returned
    retpath,       \* return statement run_script left through
    max_wait,      \* run_one_script: max_wait (decremented copy)
    opt,           \* run_one_script: opt
    proc,          \* per script: state of its child process
    xstat,         \* per script: wait status the kernel holds for the child
    desc,          \* per script: a descendant is alive in the child's group
    bg,            \* history, per script: it left a process in its group
    how,           \* return path of the last run_one_script call
    calls,         \* history: paths run_one_script was called with
    rets,          \* history: values run_one_script returned
    sleeps,        \* history: sleep(1) calls of the current run_one_script
    tkills,        \* history: killpg calls at line 124 of the current call
    tkill_hit,     \* history: a line-124 killpg found the group
    sweeps,        \* history: killpg calls at line 128 of the current call
    eintrs,        \* history: EINTR results of the current call
    nb_after_kill  \* history: polls/sleeps/decrements after a line-124 killpg

vars == <<pc, pattern, globrc, gl_pathv, iter_ok, max_wait_arg, sigchld_ign,
          direct, path_arg, l, it, rc, rc_set, ret, retpath, max_wait, opt, proc, xstat, desc,
          bg, how, calls, rets, sleeps, tkills, tkill_hit, sweeps, eintrs,
          nb_after_kill>>

inputs == <<pattern, globrc, gl_pathv, iter_ok, max_wait_arg, sigchld_ign,
            direct, path_arg>>
hist == <<sleeps, tkills, tkill_hit, sweeps, eintrs, nb_after_kill>>
procs == <<proc, xstat, desc, bg>>

\* ------------------------------------------------------------- helpers
RECURSIVE SortedSeqs(_, _)
\* strictly increasing sequences over 1..n of length at most k
SortedSeqs(n, k) ==
    IF n = 0 \/ k = 0 THEN {<<>>}
    ELSE SortedSeqs(n - 1, k)
         \cup {Append(s, n) : s \in SortedSeqs(n - 1, k - 1)}

NullList == [null |-> TRUE, items |-> <<>>]

\* list_create + list_push of one item: the container keeps insertion order
list_push(items, x) == Append(items, x)

\* list_next: the item after the first n returned ones, 0 (NULL) at the end
list_next(items, n) == IF n < Len(items) THEN items[n + 1] ELSE 0

\* error(): logs and returns SLURM_ERROR
error == ErrorRet

RECURSIVE PushAll_Reversed(_, _, _)
\* variant: the paths are pushed from the last match to the first
PushAll_Reversed(items, pathv, i) ==
    IF i > Len(pathv) THEN items
    ELSE PushAll_Reversed(list_push(items, pathv[Len(pathv) + 1 - i]),
                          pathv, i + 1)

RECURSIVE PushAll_SkipFirst(_, _, _)
\* variant: the loop starts one match too late
PushAll_SkipFirst(items, pathv, i) ==
    IF i >= Len(pathv) THEN items
    ELSE PushAll_SkipFirst(list_push(items, pathv[i + 1]), pathv, i + 1)

RECURSIVE PushAll(_, _, _)
\* for (i = 0; i < gl.gl_pathc; i++) list_push (l, xstrdup (gl.gl_pathv[i]))
PushAll(items, pathv, i) ==
    IF i > Len(pathv) THEN items
    ELSE PushAll(list_push(items, pathv[i]), pathv, i + 1)

\* variant: case GLOB_ABORTED falls into case 0 and keeps the partial matches
_script_list_create_AbortedFallsThrough(grc, pathv) ==
    IF grc \in {0, GLOB_ABORTED}
    THEN [null |-> FALSE, items |-> PushAll(<<>>, pathv, 1)]
    ELSE NullList

\* _script_list_create after the NULL-pattern check: switch (rc)
_script_list_create(grc, pathv) ==
    IF grc = 0 THEN [null |-> FALSE, items |-> PushAll(<<>>, pathv, 1)]
    ELSE NullList

\* if (pattern == NULL || pattern[0] == '\0')
PatternIsEmpty(p) == p \in {"null", "empty"}

\* variant: only the NULL pointer is tested
PathIsEmpty_OnlyNull(p) == p = NullPath

\* if (path == NULL || path[0] == '\0')
PathIsEmpty(p) == p \in {NullPath, EmptyStr}

\* variant: the wait mode does not depend on max_wait
InitialOpt_AlwaysPoll(mw) == WNOHANG

\* if (max_wait < 0) opt = 0; else opt = WNOHANG;
InitialOpt(mw) == IF mw < 0 THEN 0 ELSE WNOHANG

\* variant: the budget counts as used up one second early
BudgetExhausted_Early(mw) == mw <= 1

\* if ((--max_wait) == 0): the test on the decremented budget
BudgetExhausted(mw) == mw = 0

\* variant: only negative results stop the batch
ShouldBreak_OnlyNegative(r) == r < 0

\* if (rc) break;
ShouldBreak(r) == r # 0

\* killpg(cpid, SIGKILL): the group cpid exists once the child ran setpgrp;
\* every member dies, a running leader becomes a zombie with status SIGKILL
KillReaches(p) == p # "forked"
ProcAfterKill(p) == IF p = "running" THEN "zombie" ELSE p
StatAfterKill(p, s) == IF p = "running" THEN SIGKILL ELSE s
DescAfterKill(p, d) == IF KillReaches(p) THEN FALSE ELSE d

Live(p) == p \in {"forked", "running", "zombie"}

\* ---------------------------------------------------------------- Init
\* the locals of run_script and run_one_script, and the history, at entry
InitLocals ==
    /\ l = NullList
    /\ it = 0
    /\ rc = 0
    /\ rc_set = FALSE
    /\ ret = 0
    /\ retpath = "none"
    /\ max_wait = 0
    /\ opt = 0
    /\ proc = [i \in Scripts |-> "none"]
    /\ xstat = [i \in Scripts |-> 0]
    /\ desc = [i \in Scripts |-> FALSE]
    /\ bg = [i \in Scripts |-> FALSE]
    /\ how = "none"
    /\ calls = <<>>
    /\ rets = <<>>
    /\ sleeps = 0
    /\ tkills = 0
    /\ tkill_hit = FALSE
    /\ sweeps = 0
    /\ eintrs = 0
    /\ nb_after_kill = 0

\* a call of run_script
Init ==
    /\ pc = "entry"
    /\ pattern \in {"null", "empty", "glob"}
    /\ globrc \in GlobCodes
    /\ gl_pathv \in SortedSeqs(MaxScripts, MaxScripts)
    /\ pattern # "glob" => (globrc = GLOB_NOMATCH /\ gl_pathv = <<>>)
    /\ globrc = 0 => gl_pathv # <<>>
    /\ globrc \in {GLOB_NOMATCH, GLOB_UNKNOWN} => gl_pathv = <<>>
    /\ iter_ok \in BOOLEAN
    /\ (~iter_ok) => globrc = 0
    /\ max_wait_arg \in -2..MaxWait
    /\ sigchld_ign \in BOOLEAN
    /\ direct = FALSE
    /\ path_arg = NullPath
    /\ InitLocals

\* a call of run_one_script alone, with any path argument
InitOne ==
    /\ pc = "call"
    /\ pattern = "null"
    /\ globrc = GLOB_NOMATCH
    /\ gl_pathv = <<>>
    /\ iter_ok = TRUE
    /\ max_wait_arg \in -2..MaxWait
    /\ sigchld_ign \in BOOLEAN
    /\ direct = TRUE
    /\ path_arg \in {NullPath, EmptyStr, 1}
    /\ InitLocals

InitAny == Init \/ InitOne

\* ------------------------------------------------------------ run_script
\* lines 191-192: empty pattern
RunScript_NoPattern ==
    /\ pc = "entry"
    /\ PatternIsEmpty(pattern)
    /\ pc' = "done"
    /\ ret' = 0
    /\ retpath' = "nopattern"
    /\ UNCHANGED <<inputs, l, it, rc, rc_set, max_wait, opt, procs,
                   how, calls, rets, hist>>

\* lines 194-196: discovery returned NULL
RunScript_NoList ==
    /\ pc = "entry"
    /\ ~PatternIsEmpty(pattern)
    /\ _script_list_create(globrc, gl_pathv).null
    /\ l' = _script_list_create(globrc, gl_pathv)
    /\ pc' = "done"
    /\ ret' = error
    /\ retpath' = "nolist"
    /\ UNCHANGED <<inputs, it, rc, rc_set, max_wait, opt, procs,
                   how, calls, rets, hist>>

\* lines 198-202: list_iterator_create failed
RunScript_NoIterator ==
    /\ pc = "entry"
    /\ ~PatternIsEmpty(pattern)
    /\ ~_script_list_create(globrc, gl_pathv).null
    /\ ~iter_ok
    /\ l' = NullList
    /\ pc' = "done"
    /\ ret' = error
    /\ retpath' = "noiter"
    /\ UNCHANGED <<inputs, it, rc, rc_set, max_wait, opt, procs,
                   how, calls, rets, hist>>

\* lines 194-198: discovery produced a list, the iterator is at its head
RunScript_Discover ==
    /\ pc = "entry"
    /\ ~PatternIsEmpty(pattern)
    /\ ~_script_list_create(globrc, gl_pathv).null
    /\ iter_ok
    /\ l' = _script_list_create(globrc, gl_pathv)
    /\ it' = 0
    /\ pc' = "loop"
    /\ UNCHANGED <<inputs, rc, rc_set, ret, retpath, max_wait, opt, procs,
                   how, calls, rets, hist>>

\* lines 204, 212-215: list_next returned NULL, return rc.  An rc that was
\* never assigned is an indeterminate value.
RunScript_ListEnd ==
    /\ pc = "loop"
    /\ list_next(l.items, it) = 0
    /\ pc' = "done"
    /\ IF rc_set THEN ret' = rc ELSE ret' \in {ErrorRet, 0, 256}
    /\ retpath' = "loop"
    /\ UNCHANGED <<inputs, l, it, rc, rc_set, max_wait, opt, procs,
                   how, calls, rets, hist>>

\* lines 205-211: run_one_script returned r by path h
ReturnFromRunOne(r, h) ==
    /\ rc' = r
    /\ rc_set' = TRUE
    /\ rets' = Append(rets, r)
    /\ how' = h
    /\ IF direct
       THEN /\ pc' = "done"
            /\ ret' = r
            /\ retpath' = "direct"
       ELSE IF ShouldBreak(r)
       THEN /\ pc' = "done"
            /\ ret' = r
            /\ retpath' = "loop"
       ELSE /\ pc' = "loop"
            /\ UNCHANGED <<ret, retpath>>

\* -------------------------------------------------------- run_one_script
cur == it        \* the script run_one_script is working on

\* the path run_one_script is entered with
PathArg == IF direct THEN path_arg ELSE list_next(l.items, it)

EnterRunOne ==
    /\ IF direct THEN pc = "call"
       ELSE pc = "loop" /\ list_next(l.items, it) # 0
    /\ it' = it + 1
    /\ calls' = Append(calls, PathArg)
    /\ sleeps' = 0
    /\ tkills' = 0
    /\ tkill_hit' = FALSE
    /\ sweeps' = 0
    /\ eintrs' = 0
    /\ nb_after_kill' = 0

\* lines 75-76: nothing to run
RunOne_EmptyPath ==
    /\ EnterRunOne
    /\ PathIsEmpty(PathArg)
    /\ ReturnFromRunOne(0, "nopath")
    /\ UNCHANGED <<inputs, l, max_wait, opt, procs>>

\* variant: a script that cannot be accessed is skipped as a success
RunOne_AccessFail_Ignored ==
    /\ EnterRunOne
    /\ ~PathIsEmpty(PathArg)
    /\ ReturnFromRunOne(0, "access")
    /\ UNCHANGED <<inputs, l, max_wait, opt, procs>>

\* lines 84-87: access(path, R_OK | X_OK) < 0
RunOne_AccessFail ==
    /\ EnterRunOne
    /\ ~PathIsEmpty(PathArg)
    /\ ReturnFromRunOne(-1, "access")
    /\ UNCHANGED <<inputs, l, max_wait, opt, procs>>

\* lines 89-92: fork() < 0
RunOne_ForkFail ==
    /\ EnterRunOne
    /\ ~PathIsEmpty(PathArg)
    /\ ReturnFromRunOne(-1, "fork")
    /\ UNCHANGED <<inputs, l, max_wait, opt, procs>>

\* lines 89, 109-112: fork() returned the child's pid; choose the wait mode
RunOne_Fork ==
    /\ EnterRunOne
    /\ ~PathIsEmpty(PathArg)
    /\ proc' = [proc EXCEPT ![it + 1] = "forked"]
    /\ max_wait' = max_wait_arg
    /\ opt' = InitialOpt(max_wait_arg)
    /\ pc' = "wait"
    /\ UNCHANGED <<inputs, l, rc, rc_set, ret, retpath, xstat, desc, bg, how,
                   rets>>

\* variant: an interrupted waitpid is handled like a result of 0
Waitpid_Eintr_Sleeps ==
    /\ pc = "wait"
    /\ Live(proc[cur])
    /\ eintrs < MaxEintr
    /\ eintrs' = eintrs + 1
    /\ pc' = "sleep"
    /\ UNCHANGED <<inputs, l, it, rc, rc_set, ret, retpath, max_wait,
                   opt, procs, how, calls, rets, sleeps, tkills,
                   tkill_hit, sweeps, nb_after_kill>>

\* lines 115-118: waitpid failed with EINTR, continue
Waitpid_Eintr ==
    /\ pc = "wait"
    /\ Live(proc[cur])
    /\ eintrs < MaxEintr
    /\ eintrs' = eintrs + 1
    /\ UNCHANGED <<pc, inputs, l, it, rc, rc_set, ret, retpath, max_wait,
                   opt, procs, how, calls, rets, sleeps, tkills,
                   tkill_hit, sweeps, nb_after_kill>>

\* variant: the waitpid failure is handed to the caller as -1
Waitpid_Error_Propagates ==
    /\ pc = "wait"
    /\ proc[cur] = "gone"
    /\ ReturnFromRunOne(-1, "waiterr")
    /\ UNCHANGED <<inputs, l, it, max_wait, opt, procs, calls,
                   hist>>

\* lines 115-120: waitpid failed with another errno.  ECHILD is the one
\* waitpid(2) gives for these arguments: cpid is no longer a waitable child.
Waitpid_Error ==
    /\ pc = "wait"
    /\ proc[cur] = "gone"
    /\ ReturnFromRunOne(0, "waiterr")
    /\ UNCHANGED <<inputs, l, it, max_wait, opt, procs, calls,
                   hist>>

\* variant: a waitpid result of 0 is taken for the child's exit
Waitpid_Zero_Returns ==
    /\ pc = "wait"
    /\ opt = WNOHANG
    /\ proc[cur] \in {"forked", "running"}
    /\ ReturnFromRunOne(0, "status")
    /\ UNCHANGED <<inputs, l, it, max_wait, opt, procs, calls, hist>>

\* lines 115, 121: waitpid(WNOHANG) returned 0, the child has not exited
Waitpid_Zero ==
    /\ pc = "wait"
    /\ opt = WNOHANG
    /\ proc[cur] \in {"forked", "running"}
    /\ pc' = "sleep"
    /\ nb_after_kill' = IF tkills > 0 THEN nb_after_kill + 1
                        ELSE nb_after_kill
    /\ UNCHANGED <<inputs, l, it, rc, rc_set, ret, retpath, max_wait, opt,
                   procs, how, calls, rets, sleeps, tkills,
                   tkill_hit, sweeps, eintrs>>

\* variant: on timeout the group is killed and the call returns at once
Sleep_Decrement_KillAndReturn ==
    /\ pc = "sleep"
    /\ max_wait - 1 >= -MaxOverrun
    /\ sleeps' = sleeps + 1
    /\ max_wait' = max_wait - 1
    /\ nb_after_kill' = nb_after_kill
    /\ IF BudgetExhausted(max_wait - 1)
       THEN /\ proc' = [proc EXCEPT ![cur] = ProcAfterKill(proc[cur])]
            /\ xstat' = [xstat EXCEPT
                           ![cur] = StatAfterKill(proc[cur], xstat[cur])]
            /\ desc' = [desc EXCEPT
                          ![cur] = DescAfterKill(proc[cur], desc[cur])]
            /\ tkills' = tkills + 1
            /\ tkill_hit' = KillReaches(proc[cur])
            /\ opt' = 0
            /\ ReturnFromRunOne(StatAfterKill(proc[cur], xstat[cur]),
                                "status")
       ELSE /\ pc' = "wait"
            /\ UNCHANGED <<proc, xstat, desc, tkills, tkill_hit, opt, rc,
                           rc_set, ret, retpath, how, rets>>
    /\ UNCHANGED <<inputs, l, it, bg, calls, sweeps, eintrs>>

\* lines 122-126: sleep(1); if ((--max_wait) == 0) { killpg; opt = 0; }
Sleep_Decrement ==
    /\ pc = "sleep"
    /\ max_wait - 1 >= -MaxOverrun
    /\ sleeps' = sleeps + 1
    /\ max_wait' = max_wait - 1
    /\ nb_after_kill' = IF tkills > 0 THEN nb_after_kill + 1
                        ELSE nb_after_kill
    /\ IF BudgetExhausted(max_wait - 1)
       THEN /\ proc' = [proc EXCEPT ![cur] = ProcAfterKill(proc[cur])]
            /\ xstat' = [xstat EXCEPT
                           ![cur] = StatAfterKill(proc[cur], xstat[cur])]
            /\ desc' = [desc EXCEPT
                          ![cur] = DescAfterKill(proc[cur], desc[cur])]
            /\ tkills' = tkills + 1
            /\ tkill_hit' = KillReaches(proc[cur])
            /\ opt' = 0
       ELSE UNCHANGED <<proc, xstat, desc, tkills, tkill_hit, opt>>
    /\ pc' = "wait"
    /\ UNCHANGED <<inputs, l, it, rc, rc_set, ret, retpath, bg, how, calls,
                   rets, sweeps, eintrs>>

\* variant: the group is not signalled again once the timeout kill was sent
Waitpid_Pid_NoSweepAfterTimeout ==
    /\ pc = "wait"
    /\ proc[cur] = "zombie"
    /\ proc' = [proc EXCEPT ![cur] = "reaped"]
    /\ IF tkills = 0
       THEN /\ desc' = [desc EXCEPT
                          ![cur] = DescAfterKill("reaped", desc[cur])]
            /\ sweeps' = sweeps + 1
       ELSE UNCHANGED <<desc, sweeps>>
    /\ ReturnFromRunOne(xstat[cur], "status")
    /\ UNCHANGED <<inputs, l, it, max_wait, opt, xstat, bg, calls, sleeps,
                   tkills, tkill_hit, eintrs, nb_after_kill>>

\* variant: the wait status is dropped and 0 returned
Waitpid_Pid_ReturnsZero ==
    /\ pc = "wait"
    /\ proc[cur] = "zombie"
    /\ proc' = [proc EXCEPT ![cur] = "reaped"]
    /\ desc' = [desc EXCEPT ![cur] = DescAfterKill("reaped", desc[cur])]
    /\ sweeps' = sweeps + 1
    /\ ReturnFromRunOne(0, "status")
    /\ UNCHANGED <<inputs, l, it, max_wait, opt, xstat, bg, calls, sleeps,
                   tkills, tkill_hit, eintrs, nb_after_kill>>

\* lines 115, 127-130: waitpid returned cpid; killpg the group, return status
Waitpid_Pid ==
    /\ pc = "wait"
    /\ proc[cur] = "zombie"
    /\ proc' = [proc EXCEPT ![cur] = "reaped"]
    /\ desc' = [desc EXCEPT ![cur] = DescAfterKill("reaped", desc[cur])]
    /\ sweeps' = sweeps + 1
    /\ ReturnFromRunOne(xstat[cur], "status")
    /\ UNCHANGED <<inputs, l, it, max_wait, opt, xstat, bg, calls, sleeps,
                   tkills, tkill_hit, eintrs, nb_after_kill>>

\* ------------------------------------------------- the child and the kernel
\* lines 93-103: the child made itself the leader of process group cpid
Child_Setpgrp ==
    /\ \E i \in Scripts :
         /\ proc[i] = "forked"
         /\ proc' = [proc EXCEPT ![i] = "running"]
    /\ UNCHANGED <<pc, inputs, l, it, rc, rc_set, ret, retpath, max_wait,
                   opt, xstat, desc, bg, how, calls, rets, hist>>

\* lines 104-106: the script (or the failed execve) exits with status st
Child_Exit ==
    /\ \E i \in Scripts, st \in ExitStatuses :
         /\ proc[i] = "running"
         /\ proc' = [proc EXCEPT ![i] = "zombie"]
         /\ xstat' = [xstat EXCEPT ![i] = st]
    /\ UNCHANGED <<pc, inputs, l, it, rc, rc_set, ret, retpath, max_wait,
                   opt, desc, bg, how, calls, rets, hist>>

\* line 104: the script leaves a background process in its process group
Child_Spawn ==
    /\ \E i \in Scripts :
         /\ proc[i] = "running"
         /\ ~bg[i]
         /\ desc' = [desc EXCEPT ![i] = TRUE]
         /\ bg' = [bg EXCEPT ![i] = TRUE]
    /\ UNCHANGED <<pc, inputs, l, it, rc, rc_set, ret, retpath, max_wait,
                   opt, proc, xstat, how, calls, rets, hist>>

\* the background process ends of its own accord
Desc_Exit ==
    /\ \E i \in Scripts :
         /\ desc[i]
         /\ desc' = [desc EXCEPT ![i] = FALSE]
    /\ UNCHANGED <<pc, inputs, l, it, rc, rc_set, ret, retpath, max_wait,
                   opt, proc, xstat, bg, how, calls, rets, hist>>

\* line 115: with SIGCHLD ignored (or another waiter in the process) the
\* exited child is collected before this call's waitpid sees it
Kernel_Collect ==
    /\ sigchld_ign
    /\ \E i \in Scripts :
         /\ proc[i] = "zombie"
         /\ proc' = [proc EXCEPT ![i] = "gone"]
    /\ UNCHANGED <<pc, inputs, l, it, rc, rc_set, ret, retpath, max_wait,
                   opt, xstat, desc, bg, how, calls, rets, hist>>

Next ==
    \/ RunScript_NoPattern
    \/ RunScript_NoList
    \/ RunScript_NoIterator
    \/ RunScript_Discover
    \/ RunScript_ListEnd
    \/ RunOne_AccessFail
    \/ RunOne_ForkFail
    \/ RunOne_Fork
    \/ Waitpid_Eintr
    \/ Waitpid_Error
    \/ Waitpid_Zero
    \/ Sleep_Decrement
    \/ Waitpid_Pid
    \/ Child_Setpgrp
    \/ Child_Exit
    \/ Child_Spawn
    \/ Desc_Exit
    \/ Kernel_Collect

Spec == Init /\ [][Next]_vars

\* run_script calls and run_one_script calls with an arbitrary path
NextOne ==
    \/ RunOne_EmptyPath
    \/ Next

SpecOne == InitAny /\ [][NextOne]_vars

TypeOK ==
    /\ pc \in {"entry", "call", "loop", "wait", "sleep", "done"}
    /\ it \in 0..MaxScripts
    /\ opt \in {0, WNOHANG}
    /\ max_wait \in -MaxOverrun..MaxWait
    /\ \A i \in Scripts :
         proc[i] \in {"none", "forked", "running", "zombie", "reaped", "gone"}

\* ----------------------------------------------------------------- claims
Returned == pc \in {"loop", "done"}          \* no run_one_script in progress
SpawnedLast == Returned /\ how \in {"status", "waiterr"}
Overrun ==
    /\ pc = "wait"
    /\ max_wait_arg >= 0
    /\ sleeps >= 1
    /\ sleeps >= max_wait_arg

\* C1: a pattern whose glob expansion finds no match (GLOB_NOMATCH) makes
\* run_script return 0, and no child is forked.
C1_NoMatchReturnsZero ==
    (pc = "done" /\ pattern = "glob" /\ globrc = GLOB_NOMATCH)
        => (ret = 0 /\ \A i \in Scripts : proc[i] = "none")

\* C2: when script k is the first whose run_one_script result is non-zero,
\* no later script is called or spawned and run_script returns exactly that
\* result; when all N discovered scripts returned 0, run_script returns 0.
C2_ShortCircuit ==
    /\ \A k \in 1..Len(rets) :
         rets[k] # 0 =>
            /\ Len(rets) = k
            /\ Len(calls) = k
            /\ \A i \in Scripts : i > k => proc[i] = "none"
            /\ pc = "done"
            /\ retpath = "loop"
            /\ ret = rets[k]
    /\ (pc = "done" /\ retpath = "loop" /\ \A k \in 1..Len(rets) : rets[k] = 0)
          => (ret = 0 /\ Len(rets) = Len(l.items))

C2_Witness ==
    /\ pc = "done"
    /\ Len(l.items) = 2
    /\ rets = <<256>>
    /\ ret = 256
    /\ proc[1] = "reaped"
    /\ proc[2] = "none"

\* C3 as stated: on every return path of run_one_script after a fork, the
\* wait-error path included, a waitpid call has returned the child's pid.
C3_ReapedOnEveryReturn ==
    SpawnedLast => proc[cur] = "reaped"

\* C3 amended: a waitpid call has returned the child's pid on every return
\* path that returns the wait status, the timeout path included; the
\* wait-error path returns without any waitpid call having returned it.
C3_ReapedOnStatusReturn ==
    /\ (Returned /\ how = "status") => proc[cur] = "reaped"
    /\ (Returned /\ how = "waiterr") => proc[cur] # "reaped"

C3_Witness ==
    /\ Returned
    /\ how = "status"
    /\ tkills = 1
    /\ tkill_hit
    /\ proc[cur] = "reaped"
    /\ rets[Len(rets)] = SIGKILL

\* C4: for every max_wait >= 0, 0 included, once max_wait one-second sleeps
\* have elapsed with the child still not exited, SIGKILL has been sent to
\* the process group and waitpid is called in blocking mode.
C4_KillWhenBudgetElapsed ==
    Overrun => (tkills >= 1 /\ opt = 0)

\* C5: run_one_script is called on the discovered paths in the order of
\* gl_pathv: the i-th call gets gl_pathv[i].
C5_DiscoveryOrder ==
    /\ Len(calls) <= Len(gl_pathv)
    /\ \A i \in 1..Len(calls) : calls[i] = gl_pathv[i]

C5_Witness ==
    /\ Len(gl_pathv) >= 2
    /\ calls = gl_pathv
    /\ pc = "done"

\* C6: at most one child spawned by the run_script call is forked and not
\* yet collected at any time.
C6_AtMostOneLive ==
    Cardinality({i \in Scripts : Live(proc[i])}) <= 1

C6_Witness ==
    /\ it = 2
    /\ proc[1] \in {"reaped", "gone"}
    /\ proc[2] = "running"

\* C7: when run_one_script has returned after spawning a child, no member
\* of that child's process group is alive.
C7_NoGroupSurvivor ==
    SpawnedLast => (~desc[cur] /\ proc[cur] \notin {"forked", "running"})

\* C8: for a script that overruns max_wait the timeout SIGKILL is sent
\* exactly once, no poll, sleep or decrement follows it, waitpid is blocking
\* from then on, and run_one_script returns only after reaping the child.
C8_TimeoutKillOnceThenBlocking ==
    /\ Overrun => (tkills = 1 /\ opt = 0)
    /\ tkills <= 1
    /\ tkills = 1 => nb_after_kill = 0
    /\ (tkills = 1 /\ pc \in {"wait", "sleep"}) => opt = 0
    /\ (SpawnedLast /\ tkills = 1) => proc[cur] = "reaped"

\* C9: for every max_wait >= 0 a run_one_script call performs at most
\* max_wait one-second sleeps (the bound that makes the call return).
C9_SleepsWithinBudget ==
    max_wait_arg >= 0 => sleeps <= max_wait_arg

\* C10: when glob fails with a code other than GLOB_NOMATCH, run_script
\* returns a non-zero error and run_one_script is never called.
C10_GlobFailureIsError ==
    (pattern = "glob" /\ globrc \notin {0, GLOB_NOMATCH}) =>
        /\ calls = <<>>
        /\ \A i \in Scripts : proc[i] = "none"
        /\ pc = "done" => (ret # 0 /\ retpath = "nolist")

C10_Witness ==
    /\ pc = "done"
    /\ globrc = GLOB_ABORTED
    /\ gl_pathv # <<>>
    /\ ret = ErrorRet

\* C11: a null or empty pattern makes run_script return 0 before discovery,
\* with nothing spawned; a null or empty path makes run_one_script return 0
\* before the access check, the fork and the wait loop.
C11_EmptyInputsAreNoops ==
    /\ ((~direct) /\ pattern \in {"null", "empty"}) =>
          /\ pc \in {"entry", "done"}
          /\ calls = <<>>
          /\ \A i \in Scripts : proc[i] = "none"
          /\ pc = "done" => (ret = 0 /\ retpath = "nopattern" /\ l.null)
    /\ (direct /\ path_arg \in {NullPath, EmptyStr}) =>
          /\ pc \in {"call", "done"}
          /\ \A i \in Scripts : proc[i] = "none"
          /\ sleeps = 0 /\ eintrs = 0 /\ tkills = 0 /\ sweeps = 0
          /\ pc = "done" => (ret = 0 /\ rets = <<0>> /\ how = "nopath")

C11_Witness ==
    /\ direct
    /\ path_arg = EmptyStr
    /\ pc = "done"
    /\ how = "nopath"
    /\ ret = 0

\* C12: the step in which waitpid returns the child's pid also sends
\* SIGKILL to the child's group and returns the status, whatever the status
\* and whether or not the timeout kill was sent before.
C12_SweepBeforeStatusReturn ==
    [][(pc = "wait" /\ proc[cur] = "zombie" /\ proc'[cur] = "reaped") =>
          /\ sweeps' = sweeps + 1
          /\ ~desc'[cur]
          /\ pc' \in {"loop", "done"}
          /\ rets' = Append(rets, xstat[cur])]_vars

C12_Witness ==
    /\ Returned
    /\ how = "status"
    /\ tkills = 1
    /\ sweeps = 1
    /\ rets[Len(rets)] = 0

C14_EintrIsRetried ==
    [][(eintrs' = eintrs + 1) =>
          /\ pc' = pc
          /\ max_wait' = max_wait
          /\ opt' = opt
          /\ sleeps' = sleeps
          /\ tkills' = tkills
          /\ sweeps' = sweeps
          /\ proc' = proc
          /\ xstat' = xstat
          /\ rets' = rets
          /\ rc' = rc
          /\ ret' = ret]_vars

C14_Witness ==
    /\ eintrs = 1
    /\ sleeps >= 1
    /\ Returned
    /\ how = "status"

\* C15: when access or fork fails, run_one_script returns -1 with no child
\* created, signalled or waited for, and run_script stops the batch there
\* and returns -1.
C15_AccessOrForkFailure ==
    (Returned /\ how \in {"access", "fork"}) =>
        /\ proc[cur] = "none"
        /\ rets[Len(rets)] = -1
        /\ sleeps = 0 /\ eintrs = 0 /\ tkills = 0 /\ sweeps = 0
        /\ pc = "done"
        /\ retpath = "loop"
        /\ ret = -1
        /\ Len(calls) = cur
        /\ \A i \in Scripts : i > cur => proc[i] = "none"

C15_Witness ==
    /\ pc = "done"
    /\ how = "access"
    /\ Len(l.items) = 2
    /\ it = 1
    /\ ret = -1

\* C16: with max_wait < 0 every wait is blocking: no sleep, no decrement,
\* no timeout kill; the only killpg is the one after the child was reaped.
C16_NegativeMeansBlocking ==
    max_wait_arg < 0 =>
        /\ pc # "sleep"
        /\ sleeps = 0
        /\ tkills = 0
        /\ pc = "wait" => (opt = 0 /\ max_wait = max_wait_arg)
        /\ sweeps <= 1
        /\ sweeps = 1 => proc[cur] = "reaped"

C16_Witness ==
    /\ max_wait_arg = -2
    /\ Returned
    /\ how = "status"
    /\ sweeps = 1
    /\ bg[cur]

\* C17: for max_wait = N >= 1 every poll that finds the child running is
\* followed by one sleep and one decrement by one, and the timeout kill is
\* sent exactly on the decrement that brings the budget to 0, after N polls.
C17_KillOnNthDecrement ==
    (max_wait_arg >= 1 /\ pc \in {"wait", "sleep"}) =>
        /\ max_wait + sleeps = max_wait_arg
        /\ sleeps <= max_wait_arg
        /\ tkills = (IF max_wait = 0 THEN 1 ELSE 0)
        /\ pc = "sleep" => (max_wait >= 1 /\ opt = WNOHANG)
        /\ opt = (IF max_wait = 0 THEN 0 ELSE WNOHANG)

C17_Witness ==
    /\ max_wait_arg = 2
    /\ pc = "wait"
    /\ sleeps = 2
    /\ tkills = 1
    /\ proc[cur] = "zombie"
    /\ xstat[cur] = SIGKILL

\* C18 as stated: once the timeout SIGKILL was sent for a script, the
\* status run_one_script returns for it is non-zero and the batch stops
\* (taken where the kill found the child's group and waitpid returned the
\* child's pid, so that neither a missed kill nor a wait error is involved).
C18_TimeoutStatusNonZero ==
    (Returned /\ how = "status" /\ tkills >= 1 /\ tkill_hit)
        => (rets[Len(rets)] # 0 /\ pc = "done")

\* C18 amended: when the timeout SIGKILL ended the child (it was still
\* running in its group) and waitpid then returned its pid, the returned
\* status is the non-zero SIGKILL status and run_script stops the batch.
C18_KilledChildStopsBatch ==
    (Returned /\ how = "status" /\ tkills >= 1 /\ xstat[cur] = SIGKILL) =>
        /\ rets[Len(rets)] = SIGKILL
        /\ pc = "done"
        /\ ret = SIGKILL
        /\ Len(calls) = cur
        /\ \A i \in Scripts : i > cur => proc[i] = "none"

C18_Witness ==
    /\ pc = "done"
    /\ how = "status"
    /\ tkills = 1
    /\ xstat[1] = SIGKILL
    /\ ret = SIGKILL
    /\ Len(l.items) = 2
    /\ it = 1

\* C19: whenever killpg(cpid, SIGKILL) is called, the child has already run
\* setpgrp, so the group cpid exists: the timeout kill never misses.
C19_KillFindsGroup ==
    /\ tkills >= 1 => tkill_hit
    /\ sweeps >= 1 => proc[cur] = "reaped"

\* C20: a non-NULL list holds at least one path, so a return after the loop
\* returns a value assigned by a run_one_script call, never the unset rc.
C20_LoopAssignsRc ==
    /\ (pc # "entry" /\ retpath \notin {"nopattern", "nolist", "noiter"}
        /\ ~direct) => (~l.null /\ Len(l.items) >= 1)
    /\ (pc = "done" /\ retpath = "loop") =>
          /\ rc_set
          /\ Len(rets) >= 1
          /\ ret = rets[Len(rets)]

C20_Witness ==
    /\ pc = "done"
    /\ retpath = "loop"
    /\ Len(gl_pathv) = 1
    /\ rets = <<0>>
    /\ ret = 0

====
